---- MODULE Spec2Model ----
(***************************************************************************)
(* csi-cluster-driver-registrar: main() (cmd/csi-cluster-driver-registrar/ *)
(* main.go) probes the CSI plugin, picks the CSIDriver API of the cluster, *)
(* binds the add/remove closures and hands them to kubernetesRegister,     *)
(* which runs the registration loop on the main goroutine and the cleanup  *)
(* goroutine that deregisters on os.Interrupt (k8s_register.go).           *)
(*                                                                         *)
(* One API call is two steps: the call is issued (the request is in        *)
(* flight), then the API server applies it and the answer returns.         *)
(* Variables from sigWhen on are history variables: they record what       *)
(* happened and never guard a step of the program.                         *)
(***************************************************************************)
EXTENDS Integers, Sequences, FiniteSets, TLC

\* ------------------------------------------------------------------ bounds
\* Length of the list of APIResourceLists that discovery returns.
MaxLists == 2
\* Length of one APIResourceList.
MaxKinds == 1

\* --------------------------------------------------------------- constants
\* retry.DefaultRetry.Steps: the attempts RetryOnConflict makes at most.
DefaultRetrySteps == 5

\* k8scsi.SchemeGroupVersion.String() and k8scsialpha.SchemeGroupVersion.String()
BetaGroupVersion == "storage.k8s.io/v1beta1"
AlphaGroupVersion == "csi.storage.k8s.io/v1alpha1"

GroupVersions == {BetaGroupVersion, AlphaGroupVersion, "apps/v1"}
Kinds == {"CSIDriver", "CSINodeInfo"}
DriverNames == {"hostpath"}
PUBLISH_UNPUBLISH_VOLUME == "PUBLISH_UNPUBLISH_VOLUME"
\* The capability sets a plugin may report.
CapabilitySets == {{"CREATE_DELETE_VOLUME"}, {"CREATE_DELETE_VOLUME", PUBLISH_UNPUBLISH_VOLUME}}

VARIABLES
    showVersion,           \* flag --version
    k8sPodInfoOnMount,     \* flag --pod-info-mount
    plugin,                \* the CSI plugin behind the socket: its name and capabilities
    pc,                    \* position of the main goroutine
    cpc,                   \* position of the cleanup goroutine
    exitCode,              \* -1 while the process runs, else its exit status
    csiDriverName,         \* main's csiDriverName ("" until queried)
    k8sAttachmentRequired, \* main's k8sAttachmentRequired
    resources,             \* main's resources (the discovery answer)
    variant,               \* the branch main took: "none", "Stable" or "Legacy"
    add,                   \* the add closure: the API it targets and the object it creates
    remove,                \* the remove closure: the API it targets and the name it deletes
    notified,              \* signal.Notify(c, os.Interrupt) has run
    c,                     \* number of signals buffered in channel c (capacity 1)
    cluster,               \* the CSIDriver objects in the cluster: records [api, name]
    addCall,               \* the running or last verifyAndAddCSIDriverInfo call
    rmCall,                \* the running or last verifyAndDeleteCSIDriverInfo call
    sigWhen,               \* history: where main was when the first interrupt arrived
    sigCount,              \* history: interrupts delivered (2 stands for two or more)
    hist,                  \* history: what the process did in this run
    heal                   \* history: an external delete and what the loop did since

vars == <<showVersion, k8sPodInfoOnMount, plugin, pc, cpc, exitCode, csiDriverName,
          k8sAttachmentRequired, resources, variant, add, remove, notified, c,
          cluster, addCall, rmCall, sigWhen, sigCount, hist, heal>>

flagVars == <<showVersion, k8sPodInfoOnMount, plugin>>
mainVars == <<csiDriverName, k8sAttachmentRequired, resources, variant, add, remove>>
histVars == <<sigWhen, sigCount, hist, heal>>

\* --------------------------------------------------------- discovery input
RECURSIVE SeqsUpTo(_, _)
SeqsUpTo(S, n) ==
    IF n = 0 THEN {<<>>}
    ELSE LET shorter == SeqsUpTo(S, n - 1)
         IN shorter \cup {Append(s, x) : s \in {t \in shorter : Len(t) = n - 1}, x \in S}

APIResource == [Kind : Kinds]
APIResourceList == [GroupVersion : GroupVersions, APIResources : SeqsUpTo(APIResource, MaxKinds)]
DiscoveryAnswers == SeqsUpTo(APIResourceList, MaxLists)

\* ------------------------------------------------------------ pure helpers
\* The inner loop of hasResource: some resource of the list has the kind.
RECURSIVE hasKind(_, _, _)
hasKind(apiResources, kind, j) ==
    IF j > Len(apiResources) THEN FALSE
    ELSE IF apiResources[j].Kind = kind THEN TRUE
    ELSE hasKind(apiResources, kind, j + 1)

\* The outer loop of hasResource, from list i on.
RECURSIVE hasResourceFrom(_, _, _, _)
hasResourceFrom(rs, groupVersion, kind, i) ==
    IF i > Len(rs) THEN FALSE
    ELSE IF rs[i].GroupVersion = groupVersion /\ hasKind(rs[i].APIResources, kind, 1) THEN TRUE
    ELSE hasResourceFrom(rs, groupVersion, kind, i + 1)

hasResource(rs, groupVersion, kind) == hasResourceFrom(rs, groupVersion, kind, 1)

\* Mutant: the alpha API is tried first.
detectSchemaVariantMutLegacyFirst(rs) ==
    IF hasResource(rs, AlphaGroupVersion, "CSIDriver") THEN "Legacy"
    ELSE IF hasResource(rs, BetaGroupVersion, "CSIDriver") THEN "Stable"
    ELSE "none"

\* The if / else if / else of main over the discovery answer.
detectSchemaVariant(rs) ==
    IF hasResource(rs, BetaGroupVersion, "CSIDriver") THEN "Stable"
    ELSE IF hasResource(rs, AlphaGroupVersion, "CSIDriver") THEN "Legacy"
    ELSE "none"

\* Mutant: any reported capability counts as the publish/unpublish one.
isAttachRequiredMutAnyCapability(capabilities) == capabilities # {}

\* capabilities[csi.ControllerServiceCapability_RPC_PUBLISH_UNPUBLISH_VOLUME]
isAttachRequired(capabilities) == PUBLISH_UNPUBLISH_VOLUME \in capabilities

NoClosure == [api |-> "none"]

\* The csiDriver object and the add closure of each branch.
makeAdd(v, name, attachRequired, podInfoOnMount) ==
    IF v = "Stable"
    THEN [api |-> BetaGroupVersion,
          obj |-> [Name |-> name, AttachRequired |-> attachRequired,
                   PodInfoOnMount |-> podInfoOnMount]]
    ELSE [api |-> AlphaGroupVersion,
          obj |-> [Name |-> name, AttachRequired |-> attachRequired,
                   PodInfoOnMountVersion |-> IF podInfoOnMount THEN "v1" ELSE "nil"]]

\* Mutant: the alpha branch deletes through the beta client.
makeRemoveMutBeta(v, name) == [api |-> BetaGroupVersion, name |-> name]

\* The remove closure of each branch.
makeRemove(v, name) ==
    IF v = "Stable"
    THEN [api |-> BetaGroupVersion, name |-> name]
    ELSE [api |-> AlphaGroupVersion, name |-> name]

\* apierrors.IsAlreadyExists, IsNotFound, IsConflict on the error of an API call.
IsAlreadyExists(err) == err = "AlreadyExists"
IsNotFound(err) == err = "NotFound"
IsConflict(err) == err = "Conflict"

\* Mutant: "already exists" is handed on as an error.
addAttemptMutNoAlreadyExists(err) == IF err = "nil" THEN "nil" ELSE err

\* The function literal verifyAndAddCSIDriverInfo hands to RetryOnConflict:
\* what it returns for the error add() returned.
addAttempt(err) ==
    IF err = "nil" THEN "nil"
    ELSE IF IsAlreadyExists(err) THEN "nil"
    ELSE err

\* Mutant: "not found" is handed on as an error.
removeAttemptMutNoNotFound(err) == IF err = "nil" THEN "nil" ELSE err

\* The function literal verifyAndDeleteCSIDriverInfo hands to RetryOnConflict.
removeAttempt(err) ==
    IF err = "nil" THEN "nil"
    ELSE IF IsNotFound(err) THEN "nil"
    ELSE err

\* Mutant: the error of an earlier conflict is returned although a later
\* attempt succeeded.
RetryOnConflictMutStaleErr(err, n) ==
    IF err = "nil" THEN [again |-> FALSE, ret |-> IF n > 1 THEN "Conflict" ELSE "nil"]
    ELSE IF IsConflict(err) /\ n < DefaultRetrySteps THEN [again |-> TRUE, ret |-> "running"]
    ELSE [again |-> FALSE, ret |-> err]

\* Mutant: every error is retried, not only a conflict.
RetryOnConflictMutAnyError(err, n) ==
    IF err = "nil" THEN [again |-> FALSE, ret |-> "nil"]
    ELSE IF n < DefaultRetrySteps THEN [again |-> TRUE, ret |-> "running"]
    ELSE [again |-> FALSE, ret |-> err]

\* retry.RetryOnConflict(retry.DefaultRetry, fn) after fn returned err on attempt
\* number n of the call: run fn again, or return.
RetryOnConflict(err, n) ==
    IF err = "nil" THEN [again |-> FALSE, ret |-> "nil"]
    ELSE IF IsConflict(err) /\ n < DefaultRetrySteps THEN [again |-> TRUE, ret |-> "running"]
    ELSE [again |-> FALSE, ret |-> err]

\* The API server: the answers a create or a delete of key can get, and the
\* objects afterwards. A write conflict or a refusal changes nothing.
CreateAnswers(objs, key) ==
    (IF key \in objs THEN {"AlreadyExists"} ELSE {"nil"}) \cup {"Conflict", "Forbidden"}

DeleteAnswers(objs, key) ==
    (IF key \in objs THEN {"nil"} ELSE {"NotFound"}) \cup {"Conflict", "Forbidden"}

AfterCreate(objs, key, err) == IF err = "nil" THEN objs \cup {key} ELSE objs
AfterDelete(objs, key, err) == IF err = "nil" THEN objs \ {key} ELSE objs

Key(api, name) == [api |-> api, name |-> name]

NewCall == [attempts |-> 0, conflicts |-> 0, last |-> "none", ret |-> "none", changed |-> FALSE]
NoHeal == [missing |-> FALSE, started |-> FALSE, completed |-> FALSE, rejected |-> FALSE]

Alive == exitCode = -1

Min(a, b) == IF a < b THEN a ELSE b

\* ------------------------------------------------------------------- Init
Init ==
    /\ showVersion \in BOOLEAN
    /\ k8sPodInfoOnMount \in BOOLEAN
    /\ plugin \in [name : DriverNames, capabilities : CapabilitySets]
    /\ pc = "start"
    /\ cpc = "none"
    /\ exitCode = -1
    /\ csiDriverName = ""
    /\ k8sAttachmentRequired = FALSE
    /\ resources = <<>>
    /\ variant = "none"
    /\ add = NoClosure
    /\ remove = NoClosure
    /\ notified = FALSE
    /\ c = 0
    /\ cluster \in SUBSET {Key(gv, plugin.name) : gv \in {BetaGroupVersion, AlphaGroupVersion}}
    /\ addCall = NewCall
    /\ rmCall = NewCall
    /\ sigWhen = "none"
    /\ sigCount = 0
    /\ hist = [anyAdd |-> FALSE, connected |-> FALSE, setupFailed |-> "none",
               exitedBy |-> "none", created |-> {}, deleted |-> {},
               payloads |-> {}, deletedNames |-> {},
               deleteCalls |-> 0, extTouched |-> FALSE]
    /\ heal = NoHeal

\* ---------------------------------------------------------- main: startup
\* Mutant: the error is logged and main goes on.
FatalMutNoExit(step, next) ==
    /\ exitCode' = exitCode
    /\ pc' = next
    /\ hist' = [hist EXCEPT !.setupFailed = step, !.connected = TRUE]

\* klog.Error(...); os.Exit(1) of a failed startup step (next is the step
\* that would have followed).
Fatal(step, next) ==
    /\ exitCode' = 1
    /\ pc' = "exited"
    /\ hist' = [hist EXCEPT !.setupFailed = step, !.exitedBy = "setup", !.connected = TRUE]

\* flag.Parse(); if *showVersion { fmt.Println(...); return }
Start ==
    /\ Alive /\ pc = "start"
    /\ IF showVersion
       THEN /\ exitCode' = 0
            /\ pc' = "exited"
            /\ hist' = [hist EXCEPT !.exitedBy = "version"]
       ELSE /\ pc' = "connect"
            /\ UNCHANGED <<exitCode, hist>>
    /\ UNCHANGED <<flagVars, mainVars, cpc, notified, c, cluster, addCall, rmCall,
                   sigWhen, sigCount, heal>>

\* csiConn, err := connection.Connect(*csiAddress)
Connect ==
    /\ Alive /\ pc = "connect"
    /\ \E ok \in BOOLEAN :
         IF ok
         THEN /\ pc' = "getname"
              /\ hist' = [hist EXCEPT !.connected = TRUE]
              /\ UNCHANGED exitCode
         ELSE Fatal("connect", "getname")
    /\ UNCHANGED <<flagVars, mainVars, cpc, notified, c, cluster, addCall, rmCall,
                   sigWhen, sigCount, heal>>

\* csiDriverName, err := csirpc.GetDriverName(ctx, csiConn)
GetDriverName ==
    /\ Alive /\ pc = "getname"
    /\ \E ok \in BOOLEAN :
         IF ok
         THEN /\ pc' = "attachreq"
              /\ csiDriverName' = plugin.name
              /\ UNCHANGED <<exitCode, hist>>
         ELSE /\ Fatal("getname", "attachreq")
              /\ UNCHANGED csiDriverName
    /\ UNCHANGED <<flagVars, k8sAttachmentRequired, resources, variant, add, remove, cpc,
                   notified, c, cluster, addCall, rmCall, sigWhen, sigCount, heal>>

\* k8sAttachmentRequired, err := isAttachRequired(ctx, csiConn)
CheckAttachRequired ==
    /\ Alive /\ pc = "attachreq"
    /\ \E ok \in BOOLEAN :
         IF ok
         THEN /\ pc' = "buildconfig"
              /\ k8sAttachmentRequired' = isAttachRequired(plugin.capabilities)
              /\ UNCHANGED <<exitCode, hist>>
         ELSE /\ Fatal("attachreq", "buildconfig")
              /\ UNCHANGED k8sAttachmentRequired
    /\ UNCHANGED <<flagVars, csiDriverName, resources, variant, add, remove, cpc,
                   notified, c, cluster, addCall, rmCall, sigWhen, sigCount, heal>>

\* config, err := buildConfig(*kubeconfig)
BuildConfig ==
    /\ Alive /\ pc = "buildconfig"
    /\ \E ok \in BOOLEAN :
         IF ok
         THEN /\ pc' = "newclient"
              /\ UNCHANGED <<exitCode, hist>>
         ELSE Fatal("buildconfig", "newclient")
    /\ UNCHANGED <<flagVars, mainVars, cpc, notified, c, cluster, addCall, rmCall,
                   sigWhen, sigCount, heal>>

\* clientset, err := kubernetes.NewForConfig(config)
NewClient ==
    /\ Alive /\ pc = "newclient"
    /\ \E ok \in BOOLEAN :
         IF ok
         THEN /\ pc' = "discover"
              /\ UNCHANGED <<exitCode, hist>>
         ELSE Fatal("newclient", "discover")
    /\ UNCHANGED <<flagVars, mainVars, cpc, notified, c, cluster, addCall, rmCall,
                   sigWhen, sigCount, heal>>

\* resources, err := discovery.ServerResources(clientset)
Discover ==
    /\ Alive /\ pc = "discover"
    /\ \E ok \in BOOLEAN :
         IF ok
         THEN /\ pc' = "select"
              /\ resources' \in DiscoveryAnswers
              /\ UNCHANGED <<exitCode, hist>>
         ELSE /\ Fatal("discover", "select")
              /\ UNCHANGED resources
    /\ UNCHANGED <<flagVars, csiDriverName, k8sAttachmentRequired, variant, add, remove, cpc,
                   notified, c, cluster, addCall, rmCall, sigWhen, sigCount, heal>>

\* if hasResource(beta) {...} else if hasResource(alpha) {...} else { os.Exit(1) }
\* The beta branch binds add and remove at once; the alpha branch first
\* builds its own clientset.
SelectVariant ==
    /\ Alive /\ pc = "select"
    /\ LET v == detectSchemaVariant(resources)
       IN  IF v = "Stable"
           THEN /\ variant' = v
                /\ add' = makeAdd(v, csiDriverName, k8sAttachmentRequired, k8sPodInfoOnMount)
                /\ remove' = makeRemove(v, csiDriverName)
                /\ pc' = "register"
                /\ UNCHANGED <<exitCode, hist>>
           ELSE IF v = "Legacy"
           THEN /\ variant' = v
                /\ pc' = "legacyclient"
                /\ UNCHANGED <<add, remove, exitCode, hist>>
           ELSE /\ Fatal("select", "register")
                /\ UNCHANGED <<variant, add, remove>>
    /\ UNCHANGED <<flagVars, csiDriverName, k8sAttachmentRequired, resources, cpc,
                   notified, c, cluster, addCall, rmCall, sigWhen, sigCount, heal>>

\* clientset, err := k8scsiclient.NewForConfig(config), then the alpha closures.
LegacyClient ==
    /\ Alive /\ pc = "legacyclient"
    /\ \E ok \in BOOLEAN :
         IF ok
         THEN /\ add' = makeAdd(variant, csiDriverName, k8sAttachmentRequired,
                                k8sPodInfoOnMount)
              /\ remove' = makeRemove(variant, csiDriverName)
              /\ pc' = "register"
              /\ UNCHANGED <<exitCode, hist>>
         ELSE /\ Fatal("legacyclient", "register")
              /\ UNCHANGED <<add, remove>>
    /\ UNCHANGED <<flagVars, csiDriverName, k8sAttachmentRequired, resources, variant, cpc,
                   notified, c, cluster, addCall, rmCall, sigWhen, sigCount, heal>>

\* ------------------------------------------------ kubernetesRegister: loop
\* Mutant: the channel is made but never subscribed to os.Interrupt.
NotifyMutNoSubscription ==
    /\ Alive /\ pc = "register"
    /\ pc' = "spawn"
    /\ resources' = <<>>
    /\ UNCHANGED <<flagVars, csiDriverName, k8sAttachmentRequired, variant, add, remove, cpc,
                   exitCode, notified, c, cluster, addCall, rmCall, histVars>>

\* kubernetesRegister(csiDriverName, add, remove) is entered: main's other
\* locals are not passed on and are never read again.
\* c := make(chan os.Signal, 1); signal.Notify(c, os.Interrupt)
Notify ==
    /\ Alive /\ pc = "register"
    /\ notified' = TRUE
    /\ pc' = "spawn"
    /\ resources' = <<>>
    /\ UNCHANGED <<flagVars, csiDriverName, k8sAttachmentRequired, variant, add, remove, cpc, exitCode, c, cluster, addCall, rmCall, histVars>>

\* go cleanup(c, name, remove); the for loop is entered.
Spawn ==
    /\ Alive /\ pc = "spawn"
    /\ cpc' = "wait"
    /\ pc' = "adding"
    /\ addCall' = NewCall
    /\ UNCHANGED <<flagVars, mainVars, exitCode, notified, c, cluster, rmCall, histVars>>

\* verifyAndAddCSIDriverInfo: the function literal calls add(); the create
\* request is in flight.
AddIssue ==
    /\ Alive /\ pc = "adding"
    /\ pc' = "add_inflight"
    /\ addCall' = [addCall EXCEPT !.attempts = @ + 1]
    /\ hist' = [hist EXCEPT !.anyAdd = TRUE, !.created = @ \cup {add.api},
                             !.payloads = @ \cup {add.obj}]
    /\ heal' = IF heal.missing /\ addCall.attempts = 0
               THEN [heal EXCEPT !.started = TRUE] ELSE heal
    /\ UNCHANGED <<flagVars, mainVars, cpc, exitCode, notified, c, cluster, rmCall,
                   sigWhen, sigCount>>

\* The API server answers the create; the function literal and
\* RetryOnConflict decide between another attempt and returning to the loop,
\* which then sleeps.
AddReturn ==
    /\ Alive /\ pc = "add_inflight"
    /\ LET key == Key(add.api, add.obj.Name)
       IN  \E err \in CreateAnswers(cluster, key) :
             LET r == RetryOnConflict(addAttempt(err), addCall.attempts)
             IN  /\ cluster' = AfterCreate(cluster, key, err)
                 /\ addCall' = [addCall EXCEPT !.last = err,
                                               !.conflicts = IF IsConflict(err) THEN @ + 1 ELSE @,
                                               !.ret = r.ret,
                                               !.changed = @ \/ err = "nil"]
                 /\ pc' = IF r.again THEN "adding" ELSE "sleep"
                 /\ heal' = IF err = "nil" THEN NoHeal
                            ELSE IF ~heal.missing THEN heal
                            ELSE [heal EXCEPT !.rejected = @ \/ err \in {"Conflict", "Forbidden"},
                                              !.completed = @ \/ (heal.started /\ ~r.again)]
    /\ UNCHANGED <<flagVars, mainVars, cpc, exitCode, notified, c, rmCall,
                   sigWhen, sigCount, hist>>

\* Mutant: the loop gives up when verifyAndAddCSIDriverInfo returned an error.
SleepEndMutStopOnError ==
    /\ Alive /\ pc = "sleep"
    /\ IF addCall.ret = "nil"
       THEN /\ pc' = "adding"
            /\ addCall' = NewCall
            /\ UNCHANGED exitCode
       ELSE /\ exitCode' = 1
            /\ UNCHANGED <<pc, addCall>>
    /\ UNCHANGED <<flagVars, mainVars, cpc, notified, c, cluster, rmCall, histVars>>

\* Mutant: the loop registers once and then only sleeps.
SleepEndMutOnce ==
    /\ Alive /\ pc = "sleep"
    /\ pc' = "sleep"
    /\ addCall' = NewCall
    /\ UNCHANGED <<flagVars, mainVars, cpc, exitCode, notified, c, cluster, rmCall, histVars>>

\* time.Sleep(sleepDuration) is over: the next tick calls
\* verifyAndAddCSIDriverInfo again.
SleepEnd ==
    /\ Alive /\ pc = "sleep"
    /\ pc' = "adding"
    /\ addCall' = NewCall
    /\ UNCHANGED <<flagVars, mainVars, cpc, exitCode, notified, c, cluster, rmCall, histVars>>

\* --------------------------------------------------------------- cleanup
\* Mutant: cleanup exits without calling verifyAndDeleteCSIDriverInfo.
CleanupRecvMutSkipDelete ==
    /\ Alive /\ cpc = "wait" /\ c > 0
    /\ c' = c - 1
    /\ cpc' = "exit"
    /\ UNCHANGED <<flagVars, mainVars, pc, exitCode, notified, cluster, addCall, rmCall,
                   histVars>>

\* <-c returns; verifyAndDeleteCSIDriverInfo is entered.
CleanupRecv ==
    /\ Alive /\ cpc = "wait" /\ c > 0
    /\ c' = c - 1
    /\ cpc' = "deleting"
    /\ rmCall' = NewCall
    /\ hist' = [hist EXCEPT !.deleteCalls = @ + 1]
    /\ UNCHANGED <<flagVars, mainVars, pc, exitCode, notified, cluster, addCall,
                   sigWhen, sigCount, heal>>

\* The function literal calls remove(); the delete request is in flight.
RemoveIssue ==
    /\ Alive /\ cpc = "deleting"
    /\ cpc' = "rm_inflight"
    /\ rmCall' = [rmCall EXCEPT !.attempts = @ + 1]
    /\ hist' = [hist EXCEPT !.deleted = @ \cup {remove.api},
                             !.deletedNames = @ \cup {remove.name}]
    /\ UNCHANGED <<flagVars, mainVars, pc, exitCode, notified, c, cluster, addCall,
                   sigWhen, sigCount, heal>>

\* The API server answers the delete; another attempt, or
\* verifyAndDeleteCSIDriverInfo returns to cleanup.
RemoveReturn ==
    /\ Alive /\ cpc = "rm_inflight"
    /\ LET key == Key(remove.api, remove.name)
       IN  \E err \in DeleteAnswers(cluster, key) :
             LET r == RetryOnConflict(removeAttempt(err), rmCall.attempts)
             IN  /\ cluster' = AfterDelete(cluster, key, err)
                 /\ rmCall' = [rmCall EXCEPT !.last = err,
                                             !.conflicts = IF IsConflict(err) THEN @ + 1 ELSE @,
                                             !.ret = r.ret,
                                             !.changed = @ \/ err = "nil"]
                 /\ cpc' = IF r.again THEN "deleting" ELSE "exit"
    /\ UNCHANGED <<flagVars, mainVars, pc, exitCode, notified, c, addCall, histVars>>

\* Mutant: cleanup returns without os.Exit when the delete failed.
CleanupExitMutOnlyOnSuccess ==
    /\ Alive /\ cpc = "exit"
    /\ IF rmCall.ret = "nil"
       THEN /\ exitCode' = 1
            /\ cpc' = "exited"
            /\ hist' = [hist EXCEPT !.exitedBy = "cleanup"]
       ELSE /\ cpc' = "returned"
            /\ UNCHANGED <<exitCode, hist>>
    /\ UNCHANGED <<flagVars, mainVars, pc, notified, c, cluster, addCall, rmCall,
                   sigWhen, sigCount, heal>>

\* Mutant: cleanup ends the process with os.Exit(0).
CleanupExitMutZero ==
    /\ Alive /\ cpc = "exit"
    /\ exitCode' = 0
    /\ cpc' = "exited"
    /\ hist' = [hist EXCEPT !.exitedBy = "cleanup"]
    /\ UNCHANGED <<flagVars, mainVars, pc, notified, c, cluster, addCall, rmCall,
                   sigWhen, sigCount, heal>>

\* os.Exit(1) in cleanup: the process, the loop included, is gone.
CleanupExit ==
    /\ Alive /\ cpc = "exit"
    /\ exitCode' = 1
    /\ cpc' = "exited"
    /\ hist' = [hist EXCEPT !.exitedBy = "cleanup"]
    /\ UNCHANGED <<flagVars, mainVars, pc, notified, c, cluster, addCall, rmCall,
                   sigWhen, sigCount, heal>>

\* ------------------------------------------------------------ environment
\* Mutant: the subscription is dropped after the first interrupt, so the
\* next one ends the process by the default disposition.
InterruptMutSecondKills ==
    /\ Alive /\ notified
    /\ IF sigCount = 0
       THEN /\ c' = IF c < 1 THEN c + 1 ELSE c
            /\ UNCHANGED <<exitCode, hist>>
       ELSE /\ exitCode' = 130
            /\ hist' = [hist EXCEPT !.exitedBy = "sigint"]
            /\ UNCHANGED c
    /\ sigCount' = Min(sigCount + 1, 2)
    /\ sigWhen' = IF sigCount = 0 THEN pc ELSE sigWhen
    /\ heal' = NoHeal
    /\ UNCHANGED <<flagVars, mainVars, pc, cpc, notified, cluster, addCall, rmCall>>

\* os.Interrupt is delivered after signal.Notify: the runtime sends it to c
\* without blocking, so it is dropped when c is full.
Interrupt ==
    /\ Alive /\ notified
    /\ c' = IF c < 1 THEN c + 1 ELSE c
    /\ sigCount' = Min(sigCount + 1, 2)
    /\ sigWhen' = IF sigCount = 0 THEN pc ELSE sigWhen
    /\ heal' = NoHeal
    /\ UNCHANGED <<flagVars, mainVars, pc, cpc, exitCode, notified, cluster, addCall, rmCall,
                   hist>>

\* os.Interrupt is delivered before signal.Notify: the default disposition
\* ends the process; none of its code runs.
InterruptDefault ==
    /\ Alive /\ ~notified
    /\ exitCode' = 130
    /\ sigCount' = sigCount + 1
    /\ sigWhen' = IF sigCount = 0 THEN pc ELSE sigWhen
    /\ hist' = [hist EXCEPT !.exitedBy = "sigint"]
    /\ UNCHANGED <<flagVars, mainVars, pc, cpc, notified, c, cluster, addCall, rmCall, heal>>

\* The object this process registers: what add creates and remove deletes.
OwnKey == Key(add.api, add.obj.Name)

\* Another writer (a sibling instance of the same driver, an administrator)
\* creates the CSIDriver object this process registers. What other writers
\* did before the loop started is part of the initial cluster.
ExternalCreate ==
    /\ notified
    /\ OwnKey \notin cluster
    /\ cluster' = cluster \cup {OwnKey}
    /\ heal' = NoHeal
    /\ hist' = [hist EXCEPT !.extTouched = TRUE]
    /\ UNCHANGED <<flagVars, mainVars, pc, cpc, exitCode, notified, c, addCall, rmCall,
                   sigWhen, sigCount>>

\* Another writer deletes it.
ExternalDelete ==
    /\ notified
    /\ OwnKey \in cluster
    /\ cluster' = cluster \ {OwnKey}
    /\ heal' = IF Alive /\ sigCount = 0 THEN [NoHeal EXCEPT !.missing = TRUE] ELSE heal
    /\ hist' = [hist EXCEPT !.extTouched = TRUE]
    /\ UNCHANGED <<flagVars, mainVars, pc, cpc, exitCode, notified, c, addCall, rmCall,
                   sigWhen, sigCount>>

Next ==
    \/ Start \/ Connect \/ GetDriverName \/ CheckAttachRequired \/ BuildConfig
    \/ NewClient \/ Discover \/ SelectVariant \/ LegacyClient
    \/ Notify \/ Spawn \/ AddIssue \/ AddReturn \/ SleepEnd
    \/ CleanupRecv \/ RemoveIssue \/ RemoveReturn \/ CleanupExit
    \/ Interrupt \/ InterruptDefault \/ ExternalCreate \/ ExternalDelete

Spec == Init /\ [][Next]_vars

\* The Go scheduler runs a runnable goroutine, a sleep ends and the API
\* server answers a request: neither kubernetesRegister nor the cleanup
\* goroutine is held up for ever.
Cleanup == CleanupRecv \/ RemoveIssue \/ RemoveReturn \/ CleanupExit
Loop == Notify \/ Spawn \/ AddIssue \/ AddReturn \/ SleepEnd

FairSpec == Spec /\ WF_vars(Cleanup) /\ WF_vars(Loop)

\* ----------------------------------------------------------------- claims
\* The run ended in cleanup's os.Exit after exactly one interrupt, which
\* arrived while the loop slept.
C1Case == hist.exitedBy = "cleanup" /\ sigCount = 1 /\ sigWhen = "sleep"

\* C1 as stated: one interrupt during the sleep, so remove() is invoked exactly
\* once and the process ends with exit code 1.
C1Original == C1Case => (rmCall.attempts = 1 /\ exitCode = 1)

C1AtExit ==
    C1Case => /\ exitCode = 1
              /\ hist.deleteCalls = 1
              /\ rmCall.attempts = Min(rmCall.conflicts + 1, DefaultRetrySteps)

\* C1 (amended): after one interrupt during the sleep,
\* verifyAndDeleteCSIDriverInfo is called exactly once, remove() is invoked
\* once plus once more after each attempt that ended in a write conflict (at
\* most DefaultRetrySteps times), then the process ends with exit code 1,
\* and a process that has ended issues no add().
C1SingleInterruptWhileSleeping ==
    /\ []C1AtExit
    /\ [][~Alive => (addCall' = addCall /\ pc' = pc)]_vars
    /\ (sigWhen = "sleep") ~> (exitCode = 1)

C1Witness == C1Case /\ rmCall.attempts = 1 /\ pc = "sleep"

\* C2 as stated, for the runs in which the delete call itself reported
\* success: the process ended by the interrupt, no other writer touched the
\* object, so the object of this driver name is gone.
C2RemovedOnShutdown ==
    (hist.exitedBy = "cleanup" /\ ~hist.extTouched /\ rmCall.ret = "nil")
        => Key(remove.api, csiDriverName) \notin cluster

\* C3: when another writer deletes the object while the loop runs and no
\* interrupt was delivered, the loop calls add() again: a call of
\* verifyAndAddCSIDriverInfo begun after the deletion does not end with the
\* object still missing unless the cluster turned the create down, and the
\* object does come back (or the create is turned down, or an interrupt arrives).
C3SelfHealing ==
    /\ []((heal.missing /\ heal.completed /\ sigCount = 0) => heal.rejected)
    /\ (heal.missing /\ sigCount = 0) ~> (~heal.missing \/ heal.rejected \/ sigCount > 0)

C3Witness == heal.started /\ pc = "add_inflight" /\ sigCount = 0 /\ Alive

\* C4: in a call of verifyAndAddCSIDriverInfo, an attempt answered "already
\* exists" is the last one, the call returns nil as after a successful add(),
\* and the call has not changed the object.
C4CreateIdempotent ==
    /\ addCall.last = "AlreadyExists" =>
           (pc = "sleep" /\ addCall.ret = "nil" /\ ~addCall.changed)
    /\ addCall.last = "nil" => (pc = "sleep" /\ addCall.ret = "nil")

C4Witness == pc = "sleep" /\ addCall.last = "AlreadyExists" /\ addCall.conflicts = 1 /\ Alive

\* C5: in the call of verifyAndDeleteCSIDriverInfo, an attempt answered "not
\* found" is the last one, the call returns nil as after a successful
\* remove(), and the call has not changed the cluster.
C5DeleteIdempotent ==
    /\ rmCall.last = "NotFound" =>
           (cpc \in {"exit", "exited"} /\ rmCall.ret = "nil" /\ ~rmCall.changed)
    /\ rmCall.last = "nil" => (cpc \in {"exit", "exited"} /\ rmCall.ret = "nil")

C5Witness == cpc = "exit" /\ rmCall.last = "NotFound" /\ rmCall.conflicts = 1

\* C6: a call of verifyAndAddCSIDriverInfo whose add() met k write conflicts
\* and then succeeded returns nil after exactly k + 1 invocations of add(),
\* for every k + 1 up to DefaultRetrySteps.
C6ConflictRetry ==
    (pc = "sleep" /\ addCall.last = "nil") =>
        /\ addCall.ret = "nil"
        /\ addCall.attempts = addCall.conflicts + 1
        /\ addCall.attempts <= DefaultRetrySteps

C6Witness ==
    pc = "sleep" /\ addCall.last = "nil" /\ addCall.conflicts = 2 /\ addCall.attempts = 3
                 /\ addCall.ret = "nil"

\* The kind CSIDriver is listed under the group version.
Present(rs, groupVersion) ==
    \E i \in DOMAIN rs :
        /\ rs[i].GroupVersion = groupVersion
        /\ \E j \in DOMAIN rs[i].APIResources : rs[i].APIResources[j].Kind = "CSIDriver"

\* main has gone through the if / else if / else and still holds resources.
Selected ==
    \/ pc \in {"register", "legacyclient"}
    \/ hist.setupFailed \in {"select", "legacyclient"}

\* C7: Stable is chosen whenever discovery lists the beta CSIDriver (with or
\* without the alpha one), Legacy exactly when it lists the alpha one and not
\* the beta one, and nothing otherwise.
C7PrefersStable ==
    Selected =>
        /\ variant = "Stable" <=> Present(resources, BetaGroupVersion)
        /\ variant = "Legacy" <=> (~Present(resources, BetaGroupVersion)
                                     /\ Present(resources, AlphaGroupVersion))
        /\ variant = "none" <=> (~Present(resources, BetaGroupVersion)
                                   /\ ~Present(resources, AlphaGroupVersion))

C7Witness ==
    /\ pc = "register" /\ variant = "Stable"
    /\ Present(resources, BetaGroupVersion) /\ Present(resources, AlphaGroupVersion)

\* The API group version of a variant.
VariantGroupVersion(v) == IF v = "Stable" THEN BetaGroupVersion ELSE AlphaGroupVersion

\* C8: the variant, once chosen, never changes, the closures handed to
\* kubernetesRegister never change, and every create and every delete of the
\* run goes to the API of that variant.
C8VariantConsistency ==
    /\ [](notified =>
            /\ variant \in {"Stable", "Legacy"}
            /\ add.api = VariantGroupVersion(variant)
            /\ remove.api = VariantGroupVersion(variant)
            /\ hist.created \cup hist.deleted \subseteq {VariantGroupVersion(variant)})
    /\ [][variant # "none" => variant' = variant]_vars
    /\ [][notified => (add' = add /\ remove' = remove)]_vars

C8Witness ==
    /\ variant = "Legacy"
    /\ hist.created = {AlphaGroupVersion} /\ hist.deleted = {AlphaGroupVersion}

\* C9: after a failed startup step the process has exited with status 1
\* without entering kubernetesRegister: no add(), no remove().
C9FatalBeforeRegistration ==
    hist.setupFailed # "none" =>
        /\ exitCode = 1
        /\ pc = "exited"
        /\ ~notified /\ cpc = "none"
        /\ ~hist.anyAdd /\ hist.created = {}
        /\ hist.deleteCalls = 0 /\ hist.deleted = {}

C9Witness == hist.setupFailed = "select" /\ ~Alive

\* C10: status 0 only for --version, before any connection or cluster call;
\* status 1 after a failed startup step and after cleanup; never status 0
\* once kubernetesRegister has been entered.
C10ExitCodes ==
    /\ exitCode = 0 => (showVersion /\ hist.exitedBy = "version" /\ ~hist.connected
                          /\ ~notified /\ ~hist.anyAdd /\ hist.deleteCalls = 0)
    /\ hist.setupFailed # "none" => exitCode = 1
    /\ cpc = "exited" => exitCode = 1
    /\ notified => exitCode # 0

C10Witness == cpc = "exited" /\ exitCode = 1 /\ ~showVersion

\* C11: an add() of the loop and a remove() of cleanup are never in flight
\* together, and no add() is issued once cleanup has issued a remove().
C11MutualExclusion ==
    /\ [](~(pc = "add_inflight" /\ cpc = "rm_inflight"))
    /\ [][hist.deleted # {} => ~(pc # "add_inflight" /\ pc' = "add_inflight")]_vars

\* C12: while no interrupt is delivered the process does not exit, and
\* whatever the last verifyAndAddCSIDriverInfo call returned, the sleep is
\* followed by another add() and an add() in flight by its answer.
C12LoopNeverStops ==
    /\ []((notified /\ sigCount = 0) => Alive)
    /\ (pc = "sleep" /\ sigCount = 0) ~> (pc = "add_inflight" \/ sigCount > 0)
    /\ (pc = "add_inflight" /\ sigCount = 0) ~> (pc # "add_inflight" \/ sigCount > 0)

C12Witness ==
    /\ pc = "sleep" /\ sigCount = 0 /\ Alive
    /\ addCall.ret = "Conflict" /\ addCall.attempts = DefaultRetrySteps

\* cleanup has something to do: a signal to receive or a call to go on with.
CleanupPending ==
    Alive /\ (cpc \in {"deleting", "rm_inflight", "exit"} \/ (cpc = "wait" /\ c > 0))

\* C13: after an interrupt in steady state the process ends with status 1,
\* whatever remove() returned and wherever the loop is; cleanup can always
\* take its next step, it never waits for the loop.
C13TerminationCompletes ==
    /\ (notified /\ sigCount > 0) ~> (exitCode = 1)
    /\ [](cpc = "exited" => exitCode = 1)
    /\ [](CleanupPending => ENABLED Cleanup)

C13Witness ==
    cpc = "exited" /\ rmCall.ret = "Forbidden" /\ sigWhen = "add_inflight" /\ pc = "add_inflight"

\* What C14 says of one call, given where its goroutine is: running (about
\* to attempt), inflight (an attempt is out) or over.
RetryDiscipline(call, running, inflight, over) ==
    /\ call.attempts <= DefaultRetrySteps
    /\ running => (call.conflicts = call.attempts
                     /\ (call.attempts > 0 => call.last = "Conflict"))
    /\ inflight => (call.conflicts = call.attempts - 1
                      /\ (call.attempts > 1 => call.last = "Conflict"))
    /\ over => /\ call.attempts >= 1
               /\ call.conflicts \in {call.attempts - 1, call.attempts}
               /\ call.last = "Conflict" =>
                      (call.attempts = DefaultRetrySteps /\ call.ret = "Conflict")
               /\ call.last # "Conflict" => call.conflicts = call.attempts - 1

\* C14: within one call add() / remove() is attempted again only after a
\* write conflict, any other answer ends the call, a call makes at most
\* DefaultRetrySteps attempts, and when all of them conflict the call
\* returns the conflict error.
C14BoundedConflictRetry ==
    /\ RetryDiscipline(addCall, pc = "adding", pc = "add_inflight", pc = "sleep")
    /\ RetryDiscipline(rmCall, cpc = "deleting", cpc = "rm_inflight",
                       cpc \in {"exit", "exited"})

C14Witness ==
    /\ pc = "sleep" /\ addCall.attempts = DefaultRetrySteps /\ addCall.ret = "Conflict"
    /\ cpc = "exit" /\ rmCall.attempts = DefaultRetrySteps /\ rmCall.ret = "Conflict"

\* C15: however many interrupts arrive after signal.Notify,
\* verifyAndDeleteCSIDriverInfo is entered at most once, and the process ends
\* only through cleanup's os.Exit after that one call has returned.
C15CleanupExactlyOnce ==
    /\ hist.deleteCalls <= 1
    /\ (notified /\ ~Alive) =>
           /\ hist.exitedBy = "cleanup" /\ cpc = "exited"
           /\ hist.deleteCalls = 1
           /\ rmCall.attempts >= 1
           /\ rmCall.ret \notin {"none", "running"}

\* The second interrupt came while cleanup was at work: it stayed in c.
C15Witness == sigCount = 2 /\ c = 1 /\ cpc = "exited" /\ hist.deleteCalls = 1

\* The pod-info field of the object, read back as the flag.
PodInfoOf(obj) ==
    IF "PodInfoOnMount" \in DOMAIN obj THEN obj.PodInfoOnMount
    ELSE obj.PodInfoOnMountVersion = "v1"

\* C16: the object every create carries has the name the plugin reported,
\* AttachRequired true exactly when the plugin reported the publish/unpublish
\* capability and the pod-info value of the flag; the delete is keyed by the
\* same name; neither closure changes once kubernetesRegister runs.
C16PayloadFixed ==
    /\ [](\A obj \in hist.payloads :
            /\ obj.Name = plugin.name
            /\ obj.AttachRequired <=> (PUBLISH_UNPUBLISH_VOLUME \in plugin.capabilities)
            /\ PodInfoOf(obj) <=> k8sPodInfoOnMount)
    /\ [](hist.deletedNames \subseteq {plugin.name})
    /\ [](Cardinality(hist.payloads) <= 1)
    /\ [][notified => (add' = add /\ remove' = remove /\ csiDriverName' = csiDriverName
                         /\ k8sAttachmentRequired' = k8sAttachmentRequired)]_vars

C16Witness ==
    /\ pc = "sleep" /\ addCall.ret = "Forbidden" /\ hist.deletedNames # {}
    /\ \E obj \in hist.payloads : ~obj.AttachRequired /\ PodInfoOf(obj)

\* C17: the subscription and the cleanup goroutine are in place before the
\* first add(); the loop does not sleep before its first add(); so once an
\* add() was issued an interrupt is never met by the default disposition, the
\* process does not end without a remove(), and an interrupt does lead to one.
C17CleanupArmedFirst ==
    /\ [](hist.anyAdd => (notified /\ cpc # "none"))
    /\ [](pc = "sleep" => hist.anyAdd)
    /\ []((hist.anyAdd /\ Alive) => (ENABLED Interrupt /\ ~ENABLED InterruptDefault))
    /\ []((hist.anyAdd /\ ~Alive) => rmCall.attempts >= 1)
    /\ (hist.anyAdd /\ sigCount > 0) ~> (rmCall.attempts >= 1)

C17Witness == hist.anyAdd /\ sigWhen = "add_inflight" /\ addCall.attempts = 1 /\ cpc = "rm_inflight"

====
